---- MODULE Spec2Model ----
(***************************************************************************)
(* Tag storage and indexing of ida-minsc (base/database.py): the tag       *)
(* store over the two comment slots of an address, the implicit tags, the  *)
(* reference indices (internal.comment.globals / internal.comment.contents)*)
(* and the queries select / selectcontents.                                *)
(* The hotkeys of ui.keyboard (misc/ui.py) are modelled beside it: the     *)
(* normalization of a key combination, the cache of the mapped hotkeys and *)
(* the hotkeys that are registered with the host.                          *)
(*                                                                         *)
(* Python values are modelled as integers: tag values are 1 and 2, names   *)
(* and extra comments are small integers standing for strings, colours are *)
(* 0x00RRGGBB integers, None is a negative number, Python's True is 1.     *)
(***************************************************************************)
EXTENDS Integers, Sequences, FiniteSets, TLC

VARIABLES
    fn,     \* idaapi.get_func: address -> start of the function containing it, or NoFunc
    cmt,    \* idaapi.get_cmt / set_cmt: address -> [repeatable -> comment text]
    attr,   \* per-address attributes behind the implicit tags (name, item color, extra prefix/suffix)
    gidx,   \* internal.comment.globals: the Global reference index
    cidx,   \* internal.comment.contents: one reference index per function
    cache,  \* ui.keyboard.__cache__: normalized hotkey -> <<context, callable>>
    hotkeys,\* the hotkeys registered with idaapi: context -> the key string it was added with
    last    \* the call that was made last, with its arguments and its outcome

dbvars == <<fn, cmt, attr, gidx, cidx>>
kbdvars == <<cache, hotkeys>>
vars == <<fn, cmt, attr, gidx, cidx, cache, hotkeys, last>>

-----------------------------------------------------------------------------
(* Bounds and the universe of the model *)

\* the number of tags that the comments of the database hold at a time
MaxTags == 3
\* the number of implicit tags that the addresses of AttrEA have at a time
MaxAttrs == 2
\* the number of hotkeys that the host has registered at a time
MaxHotkeys == 2

None == 0 - 2
NoFunc == 0 - 3

\* addresses of the database that the calls are made on
EA == {1, 2, 3}
\* start addresses of functions
Funcs == {0}
\* the addresses whose implicit tags are written
AttrEA == {1, 2}

Keys == {"a", "b"}
ImplicitKeys == {"__name__", "__color__", "__extra_prefix__", "__extra_suffix__"}
AllKeys == Keys \cup ImplicitKeys
KeyOrder == <<"__color__", "__extra_prefix__", "__extra_suffix__", "__name__", "a", "b">>

Vals == {1, 2}
NameVals == {11, 12}
PrefixVals == {21}
SuffixVals == {31}
ColorVals == {66051}     \* 0x010203

\* idaapi's "no color" value of get_item_color / set_item_color: 0xffffffff, which is
\* written here as the 32-bit two's complement number it is
DEFCOLOR == 0 - 1

\* Python's True, as returned by idaapi.set_item_color
PyTrue == 1

-----------------------------------------------------------------------------
(* Python dictionaries *)

EmptyMap == [k \in {} |-> 0]

\* dict.update
Update(m1, m2) ==
    [k \in (DOMAIN m1) \cup (DOMAIN m2) |-> IF k \in DOMAIN m2 THEN m2[k] ELSE m1[k]]

\* dict.setdefault
SetDefault(m, k, v) ==
    IF k \in DOMAIN m THEN m ELSE [x \in (DOMAIN m) \cup {k} |-> IF x = k THEN v ELSE m[x]]

\* d[k] = v
Assign(m, k, v) ==
    [x \in (DOMAIN m) \cup {k} |-> IF x = k THEN v ELSE m[x]]

\* d.pop(k) (the dictionary that is left)
Pop(m, k) == [x \in (DOMAIN m) \ {k} |-> m[x]]

\* d.get(k, None)
Get(m, k) == IF k \in DOMAIN m THEN m[k] ELSE None

\* {key : value for key, value in d.items() if key in S}
Restrict(m, S) == [k \in (DOMAIN m) \cap S |-> m[k]]

RECURSIVE SortedSeq(_)
SortedSeq(S) ==
    IF S = {} THEN <<>>
    ELSE LET m == CHOOSE x \in S : \A y \in S : x <= y
         IN  <<m>> \o SortedSeq(S \ {m})

-----------------------------------------------------------------------------
(* internal.comment.encode / decode: a comment is a sequence of lines; a   *)
(* tag line "[key] value" is the record [key, val], any other line of text *)
(* is a record whose key is the empty string.                              *)

TagLine(k, v) == [key |-> k, val |-> v]

\* the keys of a dictionary in the order they are written out
KeySeq(S) == SelectSeq(KeyOrder, LAMBDA k : k \in S)

encode(m) ==
    LET ks == KeySeq(DOMAIN m)
    IN  [i \in 1..Len(ks) |-> TagLine(ks[i], m[ks[i]])]

WellFormed(text) == \A i \in 1..Len(text) : text[i].key # ""

\* decoding never fails: text that is no tag blob decodes to the empty dictionary
decode(text) ==
    IF ~WellFormed(text) THEN EmptyMap
    ELSE [k \in {text[i].key : i \in 1..Len(text)} |->
            LET i == CHOOSE i \in 1..Len(text) :
                        /\ text[i].key = k
                        /\ \A j \in (i+1)..Len(text) : text[j].key # k
            IN  text[i].val]

-----------------------------------------------------------------------------
(* The reference index (internal.comment.globals, internal.comment.contents) *)

EmptyIndex == [tags |-> [k \in AllKeys |-> 0], addr |-> [ea \in EA |-> {}]]

\* record the presence of key at address: counted on its first occurrence there
IndexInc(ix, ea, key) ==
    IF key \in ix.addr[ea] THEN ix
    ELSE [tags |-> [ix.tags EXCEPT ![key] = @ + 1],
          addr |-> [ix.addr EXCEPT ![ea] = @ \cup {key}]]

\* drop the presence of key at address: counted only when it was recorded there
IndexDec(ix, ea, key) ==
    IF key \notin ix.addr[ea] THEN ix
    ELSE [tags |-> [ix.tags EXCEPT ![key] = @ - 1],
          addr |-> [ix.addr EXCEPT ![ea] = @ \ {key}]]

\* names(): the tag names with a nonzero reference count
IndexNames(ix) == {k \in AllKeys : ix.tags[k] > 0}

\* addresses(): the addresses with a recorded tag, ascending
IndexAddress(ix) == SortedSeq({ea \in EA : ix.addr[ea] # {}})

-----------------------------------------------------------------------------
(* The database: the state the calls read and write, as one record, so     *)
(* that a call is a function from a database to a database and a result.   *)

\* besides the state there is, per call, the length of comment that idaapi.set_cmt
\* takes (None: any) and the log of the writes the call has made to the comments and
\* to the reference indices
DB == [fn |-> fn, cmt |-> cmt, attr |-> attr, gidx |-> gidx, cidx |-> cidx,
       limit |-> None, log |-> <<>>]

\* the database of a call made while idaapi.set_cmt takes comments up to a length
Host(limit) == [DB EXCEPT !.limit = limit]

\* the state of a database, without what is there per call
State(db) == [db EXCEPT !.limit = None, !.log = <<>>]

\* a write that a call has made
Logged(db, call, ea, arg) ==
    [db EXCEPT !.log = Append(@, [call |-> call, ea |-> ea, arg |-> arg])]
SlotName(r) == IF r THEN "repeatable" ELSE "non-repeatable"

\* what a call hands back: the database it leaves, the value it returns, the exception it raises
Return(db, res) == [db |-> db, ret |-> res, err |-> ""]
Raise(db, exception) == [db |-> db, ret |-> None, err |-> exception]

\* function.by_address(ea) finds a function and function.within(ea) holds
within(db, ea) == db.fn[ea] # NoFunc

\* database.comment(ea, repeatable=r)
comment(db, ea, r) == db.cmt[ea][r]

\* idaapi.set_cmt(ea, string, r) fails
Rejected(db, string) == db.limit # None /\ Len(string) > db.limit

\* database.comment(ea, string, repeatable=r): returns the comment that was there
comment_set(db, ea, string, r) ==
    IF Rejected(db, string) THEN Raise(db, "DisassemblerError")
    ELSE Return(Logged([db EXCEPT !.cmt[ea][r] = string], "set_cmt", ea, SlotName(r)),
                comment(db, ea, r))

\* database.color(ea): the stored 0x00BBGGRR as 0x00RRGGBB, None without a color
color(db, ea) ==
    LET res == db.attr[ea].color
        b == (res \div 65536) % 256
        r == res % 256
        g == (res \div 256) % 256
    IN  IF res = DEFCOLOR THEN None ELSE r * 65536 + g * 256 + b

\* database.color(ea, rgb): returns what idaapi.set_item_color returns
color_set(db, ea, rgb) ==
    LET r == (rgb \div 65536) % 256
        b == rgb % 256
        g == (rgb \div 256) % 256
    IN  Return([db EXCEPT !.attr[ea].color = b * 65536 + g * 256 + r], PyTrue)

\* database.color(ea, None)
color_del(db, ea) == Return([db EXCEPT !.attr[ea].color = DEFCOLOR], PyTrue)

\* database.name(ea)
name(db, ea) == db.attr[ea].name

\* database.name(ea, string, listed=True): returns the name that was there
name_set(db, ea, string) == Return([db EXCEPT !.attr[ea].name = string], name(db, ea))

\* database.name(ea, None, listed=True)
name_del(db, ea) == Return([db EXCEPT !.attr[ea].name = None], name(db, ea))

\* database.extra.__get_prefix__ / __get_suffix__
get_prefix(db, ea) == db.attr[ea].prefix
get_suffix(db, ea) == db.attr[ea].suffix

\* database.extra.__del_prefix__ / __del_suffix__: return the text that was there
del_prefix(db, ea) == Return([db EXCEPT !.attr[ea].prefix = None], get_prefix(db, ea))
del_suffix(db, ea) == Return([db EXCEPT !.attr[ea].suffix = None], get_suffix(db, ea))

\* database.extra.__set_prefix__ / __set_suffix__
set_prefix(db, ea, string) ==
    Return([del_prefix(db, ea).db EXCEPT !.attr[ea].prefix = string], del_prefix(db, ea).ret)
set_suffix(db, ea, string) ==
    Return([del_suffix(db, ea).db EXCEPT !.attr[ea].suffix = string], del_suffix(db, ea).ret)

\* internal.comment.globals.inc / dec, internal.comment.contents.inc / dec
globals_inc(db, ea, key) ==
    Logged([db EXCEPT !.gidx = IndexInc(@, ea, key)], "globals.inc", ea, key)
globals_dec(db, ea, key) ==
    Logged([db EXCEPT !.gidx = IndexDec(@, ea, key)], "globals.dec", ea, key)
contents_inc(db, ea, key) ==
    Logged([db EXCEPT !.cidx[db.fn[ea]] = IndexInc(@, ea, key)], "contents.inc", ea, key)
contents_dec(db, ea, key) ==
    Logged([db EXCEPT !.cidx[db.fn[ea]] = IndexDec(@, ea, key)], "contents.dec", ea, key)

-----------------------------------------------------------------------------
(* database.tag(ea): all of the tags at an address *)

\* Repeatable with the repeatable comment used everywhere
Repeatable_Always(db, ea) == TRUE

\* the comment slot used for the tags of ea: repeatable outside of a function
Repeatable(db, ea) == ~within(db, ea)

\* Merged with the repeatable comment having priority everywhere
Merged_Repeatable(db, ea) ==
    Update(decode(comment(db, ea, FALSE)), decode(comment(db, ea, TRUE)))

\* Merged with the dictionary of the canonical comment alone
Merged_CanonicalOnly(db, ea) == decode(comment(db, ea, Repeatable(db, ea)))

\* the dictionaries of both comments, the slot of the address having priority
Merged(db, ea) ==
    LET d1 == decode(comment(db, ea, FALSE))
        d2 == decode(comment(db, ea, TRUE))
    IN  IF Repeatable(db, ea) THEN Update(d1, d2) ELSE Update(d2, d1)

\* the implicit tags, where the attribute behind them is there
Implicit(db, ea, res) ==
    LET r1 == IF name(db, ea) # None THEN SetDefault(res, "__name__", name(db, ea)) ELSE res
        r2 == IF get_prefix(db, ea) # None
              THEN SetDefault(r1, "__extra_prefix__", get_prefix(db, ea)) ELSE r1
        r3 == IF get_suffix(db, ea) # None
              THEN SetDefault(r2, "__extra_suffix__", get_suffix(db, ea)) ELSE r2
    IN  IF color(db, ea) # None THEN SetDefault(r3, "__color__", color(db, ea)) ELSE r3

tag(db, ea) == Implicit(db, ea, Merged(db, ea))

\* tag_get with the key looked up in the tags of the comments alone
tag_get_Stored(db, ea, key) ==
    LET res == Merged(db, ea)
    IN  IF key \in DOMAIN res THEN Return(db, res[key]) ELSE Raise(db, "MissingTagError")

\* tag_get with the comment that is not used for the tags of ea cleared
tag_get_Clearing(db, ea, key) ==
    LET res == tag(db, ea)
        db1 == [db EXCEPT !.cmt[ea][~Repeatable(db, ea)] = <<>>]
    IN  IF key \in DOMAIN res THEN Return(db1, res[key]) ELSE Raise(db1, "MissingTagError")

\* database.tag(ea, key)
tag_get(db, ea, key) ==
    LET res == tag(db, ea)
    IN  IF key \in DOMAIN res THEN Return(db, res[key]) ELSE Raise(db, "MissingTagError")

-----------------------------------------------------------------------------
(* database.tag(ea, key, value) and database.tag(ea, key, None) *)

\* both writes start the same way: the dictionary of the other comment, which is
\* then cleared, updated with the dictionary of the comment that is used
\* FetchState with the other comment cleared and its dictionary dropped
FetchState_CanonicalOnly(db, ea) ==
    LET repeatable == Repeatable(db, ea)
        old == decode(comment(db, ea, ~repeatable))
        clr == IF old # EmptyMap THEN comment_set(db, ea, <<>>, ~repeatable) ELSE Return(db, None)
    IN  [db |-> clr.db, err |-> clr.err, state |-> decode(comment(clr.db, ea, repeatable))]

\* FetchState with the other comment left as it is
FetchState_NoClear(db, ea) ==
    LET repeatable == Repeatable(db, ea)
        old == decode(comment(db, ea, ~repeatable))
    IN  [db |-> db, err |-> "", state |-> Update(old, decode(comment(db, ea, repeatable)))]

FetchState(db, ea) ==
    LET repeatable == Repeatable(db, ea)
        old == decode(comment(db, ea, ~repeatable))
        clr == IF old # EmptyMap THEN comment_set(db, ea, <<>>, ~repeatable) ELSE Return(db, None)
    IN  [db |-> clr.db, err |-> clr.err,
         state |-> Update(old, decode(comment(clr.db, ea, repeatable)))]

\* the end of both writes: the dictionary is encoded into the comment that is used, and
\* the call returns res unless the comment could not be written
WriteState(db, ea, state, res) ==
    LET w == comment_set(db, ea, encode(state), Repeatable(db, ea))
    IN  IF w.err # "" THEN Raise(w.db, w.err) ELSE Return(w.db, res)

\* AddReference with every reference added to the Global index
AddReference_Global(db, ea, key, state) ==
    IF key \notin DOMAIN state THEN globals_inc(db, ea, key) ELSE db

\* AddReference with a reference added when the key is overwritten as well
AddReference_Always(db, ea, key, state) ==
    IF within(db, ea) THEN contents_inc(db, ea, key) ELSE globals_inc(db, ea, key)

\* a reference is added when the key is added, not when it is overwritten
AddReference(db, ea, key, state) ==
    IF key \notin DOMAIN state
    THEN IF within(db, ea) THEN contents_inc(db, ea, key) ELSE globals_inc(db, ea, key)
    ELSE db

\* DelReference with the reference left where it is
DelReference_Skip(db, ea, key) == db

\* DelReference with every reference removed from the Global index
DelReference_Global(db, ea, key) == globals_dec(db, ea, key)

\* the reference is removed with the key
DelReference(db, ea, key) ==
    IF within(db, ea) THEN contents_dec(db, ea, key) ELSE globals_dec(db, ea, key)

\* tag_set with the implicit tags dispatched before the value is looked at
tag_set_DispatchFirst(db, ea, key, value) ==
    IF key = "__name__" THEN name_set(db, ea, value)
    ELSE IF key = "__extra_prefix__" THEN set_prefix(db, ea, value)
    ELSE IF key = "__extra_suffix__" THEN set_suffix(db, ea, value)
    ELSE IF key = "__color__" THEN color_set(db, ea, value)
    ELSE IF value = None THEN Raise(db, "InvalidParameterError")
    ELSE LET s == FetchState(db, ea)
             db2 == AddReference(s.db, ea, key, s.state)
         IN  IF s.err # "" THEN Raise(s.db, s.err)
             ELSE WriteState(db2, ea, Assign(s.state, key, value), Get(s.state, key))

\* tag_set with the implicit tags kept in the comment like any other tag
tag_set_NoDispatch(db, ea, key, value) ==
    IF value = None THEN Raise(db, "InvalidParameterError")
    ELSE LET s == FetchState(db, ea)
             db2 == AddReference(s.db, ea, key, s.state)
         IN  IF s.err # "" THEN Raise(s.db, s.err)
             ELSE WriteState(db2, ea, Assign(s.state, key, value), Get(s.state, key))

tag_set(db, ea, key, value) ==
    IF value = None THEN Raise(db, "InvalidParameterError")
    ELSE IF key = "__name__" THEN name_set(db, ea, value)
    ELSE IF key = "__extra_prefix__" THEN set_prefix(db, ea, value)
    ELSE IF key = "__extra_suffix__" THEN set_suffix(db, ea, value)
    ELSE IF key = "__color__" THEN color_set(db, ea, value)
    ELSE LET s == FetchState(db, ea)
             db2 == AddReference(s.db, ea, key, s.state)
         IN  IF s.err # "" THEN Raise(s.db, s.err)
             ELSE WriteState(db2, ea, Assign(s.state, key, value), Get(s.state, key))

\* tag_del with a key that is not there popped with a default
tag_del_Silent(db, ea, key) ==
    IF key = "__name__" THEN name_del(db, ea)
    ELSE IF key = "__extra_prefix__" THEN del_prefix(db, ea)
    ELSE IF key = "__extra_suffix__" THEN del_suffix(db, ea)
    ELSE LET s == FetchState(db, ea)
             w == WriteState(s.db, ea, Pop(s.state, key), Get(s.state, key))
         IN  IF s.err # "" THEN Raise(s.db, s.err)
             ELSE IF w.err # "" THEN w
             ELSE Return(DelReference(w.db, ea, key), w.ret)

tag_del(db, ea, key) ==
    IF key = "__name__" THEN name_del(db, ea)
    ELSE IF key = "__extra_prefix__" THEN del_prefix(db, ea)
    ELSE IF key = "__extra_suffix__" THEN del_suffix(db, ea)
    ELSE LET s == FetchState(db, ea)
             w == WriteState(s.db, ea, Pop(s.state, key), Get(s.state, key))
         IN  IF s.err # "" THEN Raise(s.db, s.err)
             ELSE IF key \notin DOMAIN s.state THEN Raise(s.db, "MissingTagError")
             ELSE IF w.err # "" THEN w
             ELSE Return(DelReference(w.db, ea, key), w.ret)

-----------------------------------------------------------------------------
(* database.erase(ea) *)

\* the orders in which a dictionary with the keys S is iterated
Orders(S) ==
    {o \in [1..Cardinality(S) -> S] : \A i, j \in 1..Cardinality(S) : o[i] = o[j] => i = j}

\* for k in tag(ea): tag(ea, k, None), which an exception ends
RECURSIVE EraseKeys(_, _, _)
EraseKeys(db, ea, order) ==
    IF order = <<>> THEN Return(db, None)
    ELSE LET r == tag_del(db, ea, Head(order))
         IN  IF r.err # "" THEN r ELSE EraseKeys(r.db, ea, Tail(order))

\* erase(ea), the keys of tag(ea) being iterated in the given order
erase(db, ea, order) ==
    LET r == EraseKeys(db, ea, order)
    IN  IF r.err # "" THEN r ELSE Return(color_del(r.db, ea).db, None)

-----------------------------------------------------------------------------
(* database.select and database.selectcontents *)

\* the keyword arguments of a query: And and Or, each given or not
Query(hasAnd, And, hasOr, Or) == [hasAnd |-> hasAnd, And |-> And, hasOr |-> hasOr, Or |-> Or]
NoQuery == Query(FALSE, {}, FALSE, {})
Queries(K) ==
    {Query(TRUE, A, TRUE, O) : A \in (SUBSET K) \ {{}}, O \in (SUBSET K) \ {{}}}
        \cup {Query(TRUE, A, FALSE, {}) : A \in SUBSET K}
        \cup {Query(FALSE, {}, TRUE, O) : O \in SUBSET K}
        \cup {Query(TRUE, {}, TRUE, {}), NoQuery}

\* function.tag(ea): the tags of the function that contains ea, which are kept in
\* the function's comment; no call of this model writes a function's comment
function_tag(db, ea) == EmptyMap

\* the tags select reads for an address of the global index
SelectTags(db, ea) == IF within(db, ea) THEN function_tag(db, ea) ELSE tag(db, ea)

\* MatchTags with And satisfied by any one of its names
MatchTags_Any(d, q) ==
    LET res == Restrict(d, q.Or)
    IN  IF q.And # {}
        THEN IF (q.And \cap DOMAIN d) # {}
             THEN [keep |-> TRUE, res |-> Update(res, Restrict(d, q.And))]
             ELSE [keep |-> FALSE, res |-> res]
        ELSE [keep |-> TRUE, res |-> res]

\* the tags of d that the query asks for, and whether the address is kept
MatchTags(d, q) ==
    LET res == Restrict(d, q.Or)
    IN  IF q.And # {}
        THEN IF (q.And \cap DOMAIN d) = q.And
             THEN [keep |-> TRUE, res |-> Update(res, Restrict(d, q.And))]
             ELSE [keep |-> FALSE, res |-> res]
        ELSE [keep |-> TRUE, res |-> res]

\* what select yields, in the order of internal.comment.globals.address()
select(db, q) ==
    LET addrs == IndexAddress(db.gidx)
        all == [i \in 1..Len(addrs) |-> <<addrs[i], SelectTags(db, addrs[i])>>]
        queried == [i \in 1..Len(addrs) |->
                     <<addrs[i], MatchTags(SelectTags(db, addrs[i]), q).res>>]
    IN  IF ~q.hasAnd /\ ~q.hasOr
        THEN SelectSeq(all, LAMBDA y : y[2] # EmptyMap)
        ELSE SelectSeq(queried,
                LAMBDA y : MatchTags(SelectTags(db, y[1]), q).keep /\ y[2] # EmptyMap)

\* internal.comment.contents.iterate(): each function with a record, and the tag names recorded for it
contents_iterate(db) ==
    LET fs == SortedSeq({f \in Funcs : db.cidx[f] # EmptyIndex})
    IN  [i \in 1..Len(fs) |-> <<fs[i], UNION {db.cidx[fs[i]].addr[ea] : ea \in EA}>>]

\* internal.comment.contents.name(ea): the tag names of a function
contents_name(db, f) == IndexNames(db.cidx[f])

\* internal.comment.contents._read(None, ea): the tags that are in the function now
contents_read(db, f) ==
    UNION {(DOMAIN Merged(db, ea)) \ ImplicitKeys : ea \in {x \in EA : db.fn[x] = f}}

\* MatchNames with the names of Or left out
MatchNames_NoOr(d, q) ==
    LET res == {}
    IN  IF q.And # {}
        THEN IF (q.And \cap d) = q.And
             THEN [keep |-> TRUE, res |-> res \cup q.And]
             ELSE [keep |-> FALSE, res |-> res]
        ELSE [keep |-> TRUE, res |-> res]

\* MatchNames with And satisfied by any one of its names
MatchNames_AndAny(d, q) ==
    LET res == q.Or \cap d
    IN  IF q.And # {}
        THEN IF (q.And \cap d) # {}
             THEN [keep |-> TRUE, res |-> res \cup q.And]
             ELSE [keep |-> FALSE, res |-> res]
        ELSE [keep |-> TRUE, res |-> res]

\* the tag names of d that the query asks for, and whether the function is kept
MatchNames(d, q) ==
    LET res == q.Or \cap d
    IN  IF q.And # {}
        THEN IF (q.And \cap d) = q.And
             THEN [keep |-> TRUE, res |-> res \cup q.And]
             ELSE [keep |-> FALSE, res |-> res]
        ELSE [keep |-> TRUE, res |-> res]

\* what selectcontents yields, and whether it warns that the cache is out of sync
selectcontents(db, q) ==
    LET it == contents_iterate(db)
        all == [i \in 1..Len(it) |-> <<it[i][1], contents_name(db, it[i][1])>>]
        queried == [i \in 1..Len(it) |->
                     <<it[i][1], MatchNames(contents_name(db, it[i][1]), q).res>>]
    IN  IF ~q.hasAnd /\ ~q.hasOr
        THEN [out |-> SelectSeq(all, LAMBDA y : y[2] # {}), warn |-> FALSE]
        ELSE [out |-> SelectSeq(queried,
                        LAMBDA y : MatchNames(contents_name(db, y[1]), q).keep /\ y[2] # {}),
              warn |-> \E i \in 1..Len(it) : contents_read(db, it[i][1]) # it[i][2]]

-----------------------------------------------------------------------------
(* The calls *)

NoCall ==
    [op |-> "none", ea |-> 0, key |-> "", val |-> None, ret |-> None, err |-> "",
     map |-> EmptyMap, q |-> NoQuery, out |-> <<>>, cout |-> <<>>, warn |-> FALSE,
     slot |-> "", log |-> <<>>, spelling |-> <<>>, callable |-> None]

Store(db) ==
    /\ fn' = db.fn
    /\ cmt' = db.cmt
    /\ attr' = db.attr
    /\ gidx' = db.gidx
    /\ cidx' = db.cidx
    /\ UNCHANGED kbdvars

\* tag(ea)
TagRead(ea) ==
    /\ last' = [NoCall EXCEPT !.op = "read", !.ea = ea, !.map = tag(DB, ea)]
    /\ UNCHANGED <<dbvars, kbdvars>>

\* tag(ea, key)
TagGet(ea, key) ==
    LET r == tag_get(DB, ea, key)
    IN  /\ last' = [NoCall EXCEPT !.op = "get", !.ea = ea, !.key = key,
                                  !.ret = r.ret, !.err = r.err]
        /\ Store(r.db)

\* tag(ea, key, value), while idaapi.set_cmt takes comments up to a length
TagSetHost(ea, key, value, limit) ==
    LET r == tag_set(Host(limit), ea, key, value)
    IN  /\ last' = [NoCall EXCEPT !.op = "set", !.ea = ea, !.key = key, !.val = value,
                                  !.ret = r.ret, !.err = r.err, !.log = r.db.log]
        /\ Store(r.db)

\* tag(ea, key, value)
TagSet(ea, key, value) == TagSetHost(ea, key, value, None)

\* tag(ea, key, None), while idaapi.set_cmt takes comments up to a length
TagDeleteHost(ea, key, limit) ==
    LET r == tag_del(Host(limit), ea, key)
    IN  /\ last' = [NoCall EXCEPT !.op = "delete", !.ea = ea, !.key = key,
                                  !.ret = r.ret, !.err = r.err, !.log = r.db.log]
        /\ Store(r.db)

\* tag(ea, key, None)
TagDelete(ea, key) == TagDeleteHost(ea, key, None)

\* erase(ea)
Erase(ea, order) ==
    LET r == erase(DB, ea, order)
    IN  /\ last' = [NoCall EXCEPT !.op = "erase", !.ea = ea, !.err = r.err, !.log = r.db.log]
        /\ Store(r.db)

\* comment(ea, string, repeatable=r): the user writes a comment of the address
Comment(ea, string, r) ==
    LET w == comment_set(DB, ea, string, r)
    IN  /\ last' = [NoCall EXCEPT !.op = "comment", !.ea = ea, !.slot = SlotName(r),
                                  !.err = w.err, !.log = w.db.log]
        /\ Store(w.db)

\* select(**boolean)
Select(q) ==
    /\ last' = [NoCall EXCEPT !.op = "select", !.q = q, !.out = select(DB, q)]
    /\ UNCHANGED <<dbvars, kbdvars>>

\* selectcontents(**boolean)
SelectContents(q) ==
    LET r == selectcontents(DB, q)
    IN  /\ last' = [NoCall EXCEPT !.op = "selectcontents", !.q = q,
                                  !.cout = r.out, !.warn = r.warn]
        /\ UNCHANGED <<dbvars, kbdvars>>

\* a function is created over an address, or the function around it is removed
ScopeChange(ea) ==
    /\ fn' = [fn EXCEPT ![ea] = IF @ = NoFunc THEN 0 ELSE NoFunc]
    /\ last' = [NoCall EXCEPT !.op = "scope", !.ea = ea]
    /\ UNCHANGED <<cmt, attr, gidx, cidx, cache, hotkeys>>

-----------------------------------------------------------------------------
(* ui.keyboard: the hotkeys. A Python string is a sequence of characters,  *)
(* a normalized hotkey is the tuple <<sorted modifiers, key>>.            *)

Separators == {"-", "+", "_"}
ctrl == <<"c", "t", "r", "l">>
shift == <<"s", "h", "i", "f", "t">>
alt == <<"a", "l", "t">>
Modifiers == {ctrl, shift, alt}
\* the order of sorted() on the modifiers
ModifierOrder == <<alt, ctrl, shift>>
\* the null-byte that the separators are replaced with
NUL == "\\0"

Lowercase ==
    <<"a", "b", "c", "d", "e", "f", "g", "h", "i", "j", "k", "l", "m",
      "n", "o", "p", "q", "r", "s", "t", "u", "v", "w", "x", "y", "z">>
Uppercase ==
    <<"A", "B", "C", "D", "E", "F", "G", "H", "I", "J", "K", "L", "M",
      "N", "O", "P", "Q", "R", "S", "T", "U", "V", "W", "X", "Y", "Z">>

\* str.lower, str.upper and str.capitalize
lower(string) ==
    [i \in 1..Len(string) |->
        IF \E n \in 1..Len(Uppercase) : Uppercase[n] = string[i]
        THEN Lowercase[CHOOSE n \in 1..Len(Uppercase) : Uppercase[n] = string[i]]
        ELSE string[i]]

upper(string) ==
    [i \in 1..Len(string) |->
        IF \E n \in 1..Len(Lowercase) : Lowercase[n] = string[i]
        THEN Uppercase[CHOOSE n \in 1..Len(Lowercase) : Lowercase[n] = string[i]]
        ELSE string[i]]

capitalize(string) ==
    IF string = <<>> THEN <<>>
    ELSE upper(SubSeq(string, 1, 1)) \o lower(SubSeq(string, 2, Len(string)))

\* functools.reduce(lambda agg, item: agg.replace(item, '\0'), Separators, hotkey)
replace(string) ==
    [i \in 1..Len(string) |-> IF string[i] \in Separators THEN NUL ELSE string[i]]

\* str.split: the string is cut at every place where the separator is
split(string, sep) ==
    LET at == {0} \cup {i \in 1..Len(string) : string[i] = sep} \cup {Len(string) + 1}
        cuts == [n \in 1..Cardinality(at) |->
                    CHOOSE i \in at : Cardinality({j \in at : j < i}) = n - 1]
    IN  [n \in 1..(Cardinality(at) - 1) |-> SubSeq(string, cuts[n] + 1, cuts[n + 1] - 1)]

\* str.join
join(sep, components) ==
    LET joined[n \in 0..Len(components)] ==
            IF n = 0 THEN <<>>
            ELSE IF n = 1 THEN components[1]
            ELSE joined[n - 1] \o <<sep>> \o components[n]
    IN  joined[Len(components)]

NoHotkey == <<>>

\* the items of a list
Items(list) == {list[i] : i \in 1..Len(list)}

\* keyboard.__normalize_key__, from the split into components on: the components
\* that are modifiers are sorted, and what is left has to be one key of one character
normalize_components(components) ==
    LET modifiers == components \cap Modifiers
        key == (components \ modifiers) \cup (modifiers \ components)
    IN  IF Cardinality(key) # 1
        THEN [err |-> "InvalidParameterError", hotkey |-> NoHotkey]
        ELSE LET res == CHOOSE res \in key : TRUE
             IN  IF Len(res) # 1
                 THEN [err |-> "InvalidParameterError", hotkey |-> NoHotkey]
                 ELSE [err |-> "",
                       hotkey |-> <<SelectSeq(ModifierOrder, LAMBDA item : item \in modifiers),
                                    res>>]

\* keyboard.__normalize_key__ that keeps the letter case of the components
normalize_key_CaseSensitive(hotkey) ==
    normalize_components(Items(split(replace(hotkey), NUL)))

\* keyboard.__normalize_key__ of a string
normalize_key(hotkey) ==
    normalize_components({lower(item) : item \in Items(split(replace(hotkey), NUL))})

\* keyboard.__normalize_key__ of a tuple: its components are joined with the
\* separator that the iteration of the set Separators gives first
normalize_tuple(hotkey, separator) ==
    normalize_key(join(separator, hotkey[1] \o <<hotkey[2]>>))

\* keyboard.__of_key__, with the separator that the iteration of the set gives first
of_key(key, separator) ==
    LET modifiers == key[1]
        hotkey == key[2]
        components == [i \in 1..Len(modifiers) |-> capitalize(modifiers[i])]
                        \o <<capitalize(hotkey)>>
    IN  join(separator, components)

\* the keyboard as a value: the cache, the hotkeys of the host, and the calls
\* that were made to the host
KB == [cache |-> cache, hotkeys |-> hotkeys, log |-> <<>>]

\* the contexts that the host gives out
Contexts == 1..MaxHotkeys

\* idaapi.add_hotkey: registers the key string under a new context and returns
\* the context, or fails, registers nothing and returns None
add_hotkey(kb, keystring, ok) ==
    LET free == Contexts \ DOMAIN kb.hotkeys
        ctx == CHOOSE c \in free : \A x \in free : c <= x
        logged == [kb EXCEPT !.log = Append(@, <<"add_hotkey", ok /\ free # {}>>)]
    IN  IF ok /\ free # {}
        THEN [kb |-> [logged EXCEPT !.hotkeys = Assign(@, ctx, keystring)], ctx |-> ctx]
        ELSE [kb |-> logged, ctx |-> None]

\* idaapi.del_hotkey: removes the hotkey of the context and returns True, or
\* fails, removes nothing and returns False
del_hotkey(kb, ctx, ok) ==
    LET logged == [kb EXCEPT !.log = Append(@, <<"del_hotkey", ok>>)]
    IN  IF ok
        THEN [kb |-> [logged EXCEPT !.hotkeys = Pop(@, ctx)], ok |-> TRUE]
        ELSE [kb |-> logged, ok |-> FALSE]

\* keyboard.map, from the lookup of the normalized hotkey in the cache on
map_hotkey(kb, hotkey, callable, keystring, delok, addok) ==
    LET cached == hotkey \in DOMAIN kb.cache
        d == IF cached THEN del_hotkey(kb, kb.cache[hotkey][1], delok)
             ELSE [kb |-> kb, ok |-> TRUE]
    IN  IF ~d.ok THEN Raise(d.kb, "DisassemblerError")
        ELSE
        LET res == IF cached THEN kb.cache[hotkey][2] ELSE None
            popped == [d.kb EXCEPT !.cache = Pop(@, hotkey)]
            a == add_hotkey(popped, keystring, addok)
        IN  IF a.ctx = None THEN Raise(a.kb, "DisassemblerError")
            ELSE Return([a.kb EXCEPT !.cache = Assign(@, hotkey, <<a.ctx, callable>>)], res)

\* keyboard.map(key, callable)
map(kb, key, callable, separator, delok, addok) ==
    LET n == normalize_key(key)
    IN  IF n.err # "" THEN Raise(kb, n.err)
        ELSE map_hotkey(kb, n.hotkey, callable, of_key(n.hotkey, separator), delok, addok)

\* keyboard.unmap of a hotkey, when it takes the hotkey out of the cache before
\* it asks the host to remove it
unmap_hotkey_PopFirst(kb, hotkey, delok) ==
    IF hotkey \notin DOMAIN kb.cache THEN Return(kb, None)
    ELSE LET popped == [kb EXCEPT !.cache = Pop(@, hotkey)]
             d == del_hotkey(popped, kb.cache[hotkey][1], delok)
         IN  IF ~d.ok THEN Raise(d.kb, "DisassemblerError")
             ELSE Return(d.kb, kb.cache[hotkey][2])

\* keyboard.unmap, from the lookup of the normalized hotkey in the cache on
unmap_hotkey(kb, hotkey, delok) ==
    IF hotkey \notin DOMAIN kb.cache THEN Return(kb, None)
    ELSE LET d == del_hotkey(kb, kb.cache[hotkey][1], delok)
         IN  IF ~d.ok THEN Raise(d.kb, "DisassemblerError")
             ELSE Return([d.kb EXCEPT !.cache = Pop(@, hotkey)], kb.cache[hotkey][2])

\* keyboard.unmap(key) of a key combination
unmap(kb, key, delok) ==
    LET n == normalize_key(key)
    IN  IF n.err # "" THEN Raise(kb, n.err) ELSE unmap_hotkey(kb, n.hotkey, delok)

\* the hotkeys of the cache that a callable is mapped to
Found(kb, callable) == {item \in DOMAIN kb.cache : kb.cache[item][2] = callable}

\* keyboard.unmap(key) of a callable: item is the hotkey that the iteration of
\* the cache finds first, NoHotkey when the callable is not in the cache
unmap_callable(kb, callable, item, separator, delok) ==
    IF item = NoHotkey THEN Raise(kb, "InvalidParameterError")
    ELSE LET n == normalize_tuple(item, separator)
         IN  IF n.err # "" THEN Raise(kb, n.err) ELSE unmap_hotkey(kb, n.hotkey, delok)

StoreKeyboard(kb) ==
    /\ cache' = kb.cache
    /\ hotkeys' = kb.hotkeys
    /\ UNCHANGED dbvars

\* the outcome r of a call is recorded, and the keyboard that it leaves is kept
Called(r, op, key, callable) ==
    /\ last' = [NoCall EXCEPT !.op = op, !.spelling = key, !.callable = callable,
                              !.ret = r.ret, !.err = r.err, !.log = r.db.log]
    /\ StoreKeyboard(r.db)

\* keyboard.map(key, callable); the host fails when it has no context to give out
Map(key, callable, separator, delok, addok) ==
    Called(map(KB, key, callable, separator, delok, addok), "map", key, callable)

\* keyboard.unmap(key) of a key combination
Unmap(key, delok) ==
    Called(unmap(KB, key, delok), "unmap", key, None)

\* keyboard.unmap(key) of a callable
UnmapCallable(callable, separator, delok) ==
    \E item \in (IF Found(KB, callable) = {} THEN {NoHotkey} ELSE Found(KB, callable)) :
        Called(unmap_callable(KB, callable, item, separator, delok),
               "unmap_callable", <<>>, callable)

-----------------------------------------------------------------------------
(* The database that is opened: address 1 is inside of the function at 0,  *)
(* the addresses 2 and 3 are outside of any function; no address is        *)
(* tagged; address 3 is named and has a color and a prefix.                 *)

NoAttr == [name |-> None, color |-> DEFCOLOR, prefix |-> None, suffix |-> None]

Init ==
    /\ fn = [ea \in EA |-> IF ea = 1 THEN 0 ELSE NoFunc]
    /\ cmt = [ea \in EA |-> [r \in BOOLEAN |-> <<>>]]
    /\ attr = [ea \in EA |->
                IF ea = 3 THEN [NoAttr EXCEPT !.name = 11, !.color = 197121, !.prefix = 21]
                ELSE NoAttr]
    /\ gidx = EmptyIndex
    /\ cidx = [f \in Funcs |-> EmptyIndex]
    /\ cache = EmptyMap
    /\ hotkeys = EmptyMap
    /\ last = NoCall

\* the number of tags in the comments, and of implicit tags at the addresses of AttrEA
RECURSIVE Sum(_, _)
Sum(f, S) ==
    IF S = {} THEN 0
    ELSE LET x == CHOOSE x \in S : TRUE IN f[x] + Sum(f, S \ {x})
Stored == Sum([ea \in EA |-> Cardinality(DOMAIN Merged(DB, ea))], EA)
Attrs == Sum([ea \in AttrEA |-> Cardinality((DOMAIN tag(DB, ea)) \cap ImplicitKeys)], AttrEA)

\* the calls are made while the database is within the bounds of the model
Room(ea, key) ==
    IF key \in ImplicitKeys
    THEN key \in DOMAIN tag(DB, ea) \/ Attrs < MaxAttrs
    ELSE key \in DOMAIN Merged(DB, ea) \/ Stored < MaxTags

\* the values a caller gives a tag
ValsOf(key) ==
    IF key = "__name__" THEN NameVals
    ELSE IF key = "__color__" THEN ColorVals
    ELSE IF key = "__extra_prefix__" THEN PrefixVals
    ELSE IF key = "__extra_suffix__" THEN SuffixVals
    ELSE Vals

\* the values given to a tag where the implicit tags are written
AttrValsOf(key) == IF key \in ImplicitKeys THEN ValsOf(key) ELSE {1}

\* the tag store, over the tags that are kept in comments
Next ==
    \/ \E ea \in EA, key \in Keys, value \in Vals : Room(ea, key) /\ TagSet(ea, key, value)
    \/ \E ea \in EA, key \in Keys : TagDelete(ea, key)
    \/ \E ea \in EA, key \in AllKeys : TagGet(ea, key)
    \/ \E ea \in EA : TagRead(ea)

Spec == Init /\ [][Next]_vars

\* the queries
NextQuery ==
    \/ \E ea \in EA, key \in Keys, value \in Vals : Room(ea, key) /\ TagSet(ea, key, value)
    \/ \E ea \in EA, key \in Keys : TagDelete(ea, key)
    \/ \E q \in Queries(Keys) : Select(q)
    \/ \E q \in Queries(Keys) : SelectContents(q)

SpecQuery == Init /\ [][NextQuery]_vars

\* the implicit tags beside a tag that is kept in a comment
NextAttr ==
    \/ \E ea \in AttrEA, key \in ImplicitKeys \cup {"a"} :
          \E value \in AttrValsOf(key) \cup {None} : Room(ea, key) /\ TagSet(ea, key, value)
    \/ \E ea \in AttrEA, key \in ImplicitKeys \cup {"a"} : TagDelete(ea, key)
    \/ \E ea \in AttrEA, key \in ImplicitKeys \cup {"a"} : TagGet(ea, key)
    \/ \E ea \in AttrEA : TagRead(ea)

SpecAttr == Init /\ [][NextAttr]_vars

\* the addresses whose comments the user writes, and what the user writes: nothing, a
\* tag, text that is no tag
SlotEA == {1, 2}
HandTag == <<TagLine("a", 2)>>
Junk == <<TagLine("", 0)>>
Texts == {<<>>, HandTag, Junk}
\* the user writes both comments of the address inside of the function, and the
\* non-repeatable comment of the address outside
EditSlot(ea, r) == within(DB, ea) \/ r = FALSE
EditRoom(string) == string = <<>> \/ Stored < MaxTags

\* the queries made beside the comments the user writes
SlotQueries == {NoQuery, Query(TRUE, {"a"}, FALSE, {}), Query(FALSE, {}, TRUE, {"a", "b"})}

\* the tag store over both comments of an address: the user writes comments
NextSlot ==
    \/ \E ea \in SlotEA, key \in Keys : Room(ea, key) /\ TagSet(ea, key, 1)
    \/ \E ea \in SlotEA, key \in Keys : TagDelete(ea, key)
    \/ \E ea \in SlotEA, string \in Texts, r \in BOOLEAN :
          EditSlot(ea, r) /\ EditRoom(string) /\ Comment(ea, string, r)
    \/ \E ea \in SlotEA : TagRead(ea)
    \/ \E ea \in SlotEA, key \in Keys : TagGet(ea, key)
    \/ \E q \in SlotQueries : Select(q)
    \/ \E q \in SlotQueries : SelectContents(q)

SpecSlot == Init /\ [][NextSlot]_vars

\* the lengths of comment that idaapi.set_cmt takes: any, none but the empty one, one line
Limits == {None, 0, 1}

\* the tag store while idaapi.set_cmt turns comments down; the user writes a tag into
\* the comment that the tags of the address are not kept in
NextHost ==
    \/ \E ea \in SlotEA, key \in Keys, limit \in Limits :
          Room(ea, key) /\ TagSetHost(ea, key, 1, limit)
    \/ \E ea \in SlotEA, key \in Keys, limit \in Limits : TagDeleteHost(ea, key, limit)
    \/ \E ea \in SlotEA : EditRoom(HandTag) /\ Comment(ea, HandTag, within(DB, ea))
    \/ \E ea \in SlotEA : TagRead(ea)

SpecHost == Init /\ [][NextHost]_vars

\* erase beside the implicit tags and a tag that is kept in a comment
NextErase ==
    \/ \E ea \in AttrEA, key \in ImplicitKeys \cup {"a"} :
          \E value \in AttrValsOf(key) : Room(ea, key) /\ TagSet(ea, key, value)
    \/ \E ea \in EA : \E order \in Orders(DOMAIN tag(DB, ea)) : Erase(ea, order)
    \/ \E ea \in EA : TagRead(ea)

SpecErase == Init /\ [][NextErase]_vars

\* the address outside of a function whose implicit tags are written, and over which a
\* function is created
ScopeEA == CHOOSE ea \in SlotEA : ea # 1

\* the tag store over comments that the user overwrites with text that is no tag
NextCorrupt ==
    \/ \E ea \in SlotEA, key \in Keys : Room(ea, key) /\ TagSet(ea, key, 1)
    \/ \E ea \in SlotEA : Comment(ea, Junk, ~within(DB, ea))
    \/ \E ea \in SlotEA : EditRoom(HandTag) /\ Comment(ea, HandTag, within(DB, ea))
    \/ \E ea \in SlotEA : TagRead(ea)
    \/ \E q \in SlotQueries : Select(q)

SpecCorrupt == Init /\ [][NextCorrupt]_vars

\* the tags the user writes under the name of an implicit tag
ImplicitTexts == {<<>>, <<TagLine("__name__", 12)>>, <<TagLine("__color__", 1)>>}

\* the implicit tags beside comments in which the user writes tags of their names
NextImplicit ==
    \/ \E key \in ImplicitKeys :
          \E value \in AttrValsOf(key) : Room(ScopeEA, key) /\ TagSet(ScopeEA, key, value)
    \/ \E key \in ImplicitKeys : TagDelete(ScopeEA, key)
    \/ \E ea \in AttrEA, string \in ImplicitTexts : Comment(ea, string, ~within(DB, ea))
    \/ \E ea \in EA : TagRead(ea)

SpecImplicit == Init /\ [][NextImplicit]_vars

\* the tag store while a function is created over an address and removed again
NextScope ==
    \/ \E ea \in SlotEA, key \in Keys : Room(ea, key) /\ TagSet(ea, key, 1)
    \/ \E ea \in SlotEA, key \in Keys : TagDelete(ea, key)
    \/ ScopeChange(ScopeEA)
    \/ \E ea \in SlotEA : TagRead(ea)

SpecScope == Init /\ [][NextScope]_vars

\* The keyboard, while every call to the host succeeds. A key combination is
\* spelled with its modifiers in some order and letter case, one of the
\* separators, and the key as a small or a capital letter.
Callables == {1, 2}

ModSpellings ==
    { [words |-> <<>>, mods |-> {}],
      [words |-> << <<"C", "t", "r", "l">> >>, mods |-> {"ctrl"}],
      [words |-> << <<"c", "t", "r", "l">>, <<"S", "h", "i", "f", "t">> >>,
       mods |-> {"ctrl", "shift"}],
      [words |-> << <<"S", "H", "I", "F", "T">>, <<"C", "T", "R", "L">> >>,
       mods |-> {"ctrl", "shift"}] }

KeySpellings ==
    { [text |-> <<"a">>, letter |-> "a"],
      [text |-> <<"A">>, letter |-> "a"] }

\* the spellings that use the separators of a set, with the hotkey that each denotes
SpelledWith(separators) ==
    { [text |-> join(sep, m.words \o <<k.text>>), mods |-> m.mods, letter |-> k.letter] :
        m \in ModSpellings, sep \in separators, k \in KeySpellings }

Spelled == SpelledWith(Separators)
Spellings == {x.text : x \in Spelled}
\* the spellings that the calls are made with: every hotkey, letter case, separator
\* and modifier order is among them
InputSpellings ==
    { <<"a">>,
      join("-", << <<"C", "t", "r", "l">>, <<"A">> >>),
      join("+", << <<"C", "t", "r", "l">>, <<"a">> >>),
      join("_", << <<"c", "t", "r", "l">>, <<"S", "h", "i", "f", "t">>, <<"a">> >>),
      join("+", << <<"S", "H", "I", "F", "T">>, <<"C", "T", "R", "L">>, <<"A">> >>) }

\* one spelling of each of the hotkeys
HostSpellings ==
    {join("-", m.words \o << <<"a">> >>) : m \in ModSpellings \ {m \in ModSpellings : m.words # <<>> /\ m.words[1] = upper(shift)}}

\* strings that are no key combination: nothing, a modifier alone, a key of
\* two characters, two keys
Misspellings ==
    { <<>>, <<"c", "t", "r", "l">>, <<"a", "b">>, <<"a", "-", "b">> }
HostMisspellings == { <<"c", "t", "r", "l">>, <<"a", "-", "b">> }

\* a call that does not raise
Succeeds(r) == r.err = ""

NextKeyboard ==
    \/ \E key \in InputSpellings, callable \in Callables, separator \in Separators :
        /\ Succeeds(map(KB, key, callable, separator, TRUE, TRUE))
        /\ Map(key, callable, separator, TRUE, TRUE)
    \/ \E key \in InputSpellings : Unmap(key, TRUE)
    \/ \E callable \in Callables, separator \in Separators :
        UnmapCallable(callable, separator, TRUE)

SpecKeyboard == Init /\ [][NextKeyboard]_vars

\* The keyboard, while the host may fail to add and to remove a hotkey
NextKeyboardHost ==
    \/ \E key \in HostSpellings \cup HostMisspellings, callable \in Callables,
          separator \in Separators, delok \in BOOLEAN, addok \in BOOLEAN :
        Map(key, callable, separator, delok, addok)
    \/ \E key \in HostSpellings \cup Misspellings, delok \in BOOLEAN : Unmap(key, delok)
    \/ \E callable \in Callables, separator \in Separators, delok \in BOOLEAN :
        UnmapCallable(callable, separator, delok)

SpecKeyboardHost == Init /\ [][NextKeyboardHost]_vars

-----------------------------------------------------------------------------
(* What the claims speak of *)

\* the tag names the reference index of the scope of ea records for ea
Recorded(db, ea) ==
    IF within(db, ea) THEN db.cidx[db.fn[ea]].addr[ea] ELSE db.gidx.addr[ea]

\* the tag names of tag(ea) that are not implicit
StoredKeys(db, ea) == (DOMAIN tag(db, ea)) \ ImplicitKeys

\* the addresses a query has yielded
Yielded(out) == {out[i][1] : i \in 1..Len(out)}

AndOnly(q) == q.hasAnd /\ ~q.hasOr /\ q.And # {}
OrOnly(q) == q.hasOr /\ ~q.hasAnd /\ q.Or # {}

-----------------------------------------------------------------------------
\* C1: after every tag set and tag delete of a non-implicit key, the tag names that the
\* reference index of an address's scope (Contents of its function inside of a function,
\* Global outside) records for the address are the non-implicit keys of tag(ea).
C1_IndexContentConsistency ==
    \A ea \in EA : Recorded(DB, ea) = StoredKeys(DB, ea)

\* a tag was deleted, and the tagged addresses inside and outside of a function are
\* recorded, one of them beside implicit tags
C1_Witness ==
    /\ last.op = "delete" /\ last.err = ""
    /\ Recorded(DB, 1) # {}
    /\ Recorded(DB, 3) # {}
    /\ DOMAIN tag(DB, 3) # Recorded(DB, 3)

-----------------------------------------------------------------------------
\* C2 as it is written: the Global reference count of a tag name is the number of
\* addresses at which tag(ea) reports the name.
C2_CountsEveryAddress ==
    \A k \in Keys : DB.gidx.tags[k] = Cardinality({ea \in EA : k \in DOMAIN tag(DB, ea)})

\* C2, amended: the Global reference count of a non-implicit tag name is the number of
\* addresses outside of any function at which tag(ea) reports the name, whatever the
\* sets and deletes that were made, and however often the key was written at an address.
C2_ReferenceCounting ==
    \A k \in Keys :
        DB.gidx.tags[k] = Cardinality({ea \in EA : ~within(DB, ea) /\ k \in DOMAIN tag(DB, ea)})

\* a key that two addresses carry was written again at one of them
C2_Witness ==
    /\ last.op = "set" /\ last.err = "" /\ last.ret # None /\ last.ret # last.val
    /\ DB.gidx.tags[last.key] = 2

-----------------------------------------------------------------------------
\* C3 as it is written: select(And=A) yields the addresses whose tags include A, and
\* select(Or=O) yields the addresses whose tags meet O.
C3_SelectsEveryAddress ==
    last.op = "select" =>
        /\ AndOnly(last.q) =>
              Yielded(last.out) = {ea \in EA : last.q.And \subseteq DOMAIN tag(DB, ea)}
        /\ OrOnly(last.q) =>
              Yielded(last.out) = {ea \in EA : last.q.Or \cap DOMAIN tag(DB, ea) # {}}

\* C3, amended: for non-implicit names, select(And=A) yields, once each, the addresses
\* outside of any function whose tags include A, and select(Or=O) the addresses outside of
\* any function whose tags meet O, each with the dictionary of the tags of the address that
\* the query names.
C3_BooleanQuery ==
    last.op = "select" =>
        /\ AndOnly(last.q) =>
              /\ Yielded(last.out) =
                    {ea \in EA : ~within(DB, ea) /\ last.q.And \subseteq DOMAIN tag(DB, ea)}
              /\ Len(last.out) = Cardinality(Yielded(last.out))
              /\ \A i \in 1..Len(last.out) :
                    last.out[i][2] = Restrict(tag(DB, last.out[i][1]), last.q.And)
        /\ OrOnly(last.q) =>
              /\ Yielded(last.out) =
                    {ea \in EA : ~within(DB, ea) /\ last.q.Or \cap DOMAIN tag(DB, ea) # {}}
              /\ Len(last.out) = Cardinality(Yielded(last.out))
              /\ \A i \in 1..Len(last.out) :
                    last.out[i][2] = Restrict(tag(DB, last.out[i][1]), last.q.Or)

\* select(And={a, b}) has yielded one of two tagged addresses outside of a function
C3_Witness ==
    /\ last.op = "select" /\ AndOnly(last.q) /\ last.q.And = {"a", "b"}
    /\ Len(last.out) = 1
    /\ \A ea \in {2, 3} : StoredKeys(DB, ea) # {}

-----------------------------------------------------------------------------
\* C4: the tags of an address inside of a function are not recorded in the Global index,
\* and select does not yield the address.
C4_NotInGlobal ==
    \A ea \in EA : within(DB, ea) =>
        /\ DB.gidx.addr[ea] = {}
        /\ last.op = "select" => ea \notin Yielded(last.out)

\* select(And=k) was called while an address inside of a function carried k, and only k
C4_Witness ==
    /\ last.op = "select" /\ AndOnly(last.q) /\ last.q.And = {"a"}
    /\ StoredKeys(DB, 1) = {"a"}
    /\ last.out # <<>>

-----------------------------------------------------------------------------
\* C5 as it is written: after tag(ea, k, v) inside of a function, selectcontents(Or=k)
\* yields the pair of ea and {k}.
C5_YieldsTheAddress ==
    (last.op = "selectcontents" /\ OrOnly(last.q)) =>
        \A ea \in EA, k \in last.q.Or :
            (within(DB, ea) /\ last.q.Or = {k} /\ k \in StoredKeys(DB, ea)) =>
                \E i \in 1..Len(last.cout) : last.cout[i] = <<ea, {k}>>

\* C5, amended: after tag(ea, k, v) inside of a function F, selectcontents(Or=k) yields
\* the pair of F, the function that contains ea, and {k}.
C5_YieldsTheFunction ==
    (last.op = "selectcontents" /\ OrOnly(last.q)) =>
        \A ea \in EA, k \in last.q.Or :
            (within(DB, ea) /\ last.q.Or = {k} /\ k \in StoredKeys(DB, ea)) =>
                \E i \in 1..Len(last.cout) : last.cout[i] = <<DB.fn[ea], {k}>>

\* selectcontents(Or=k) was called while an address inside of a function carried k
C5_Witness ==
    /\ last.op = "selectcontents" /\ OrOnly(last.q) /\ last.q.Or = {"a"}
    /\ "a" \in StoredKeys(DB, 1)

-----------------------------------------------------------------------------
\* C6: tag(ea, key, value) with a value that is not None returns the value that tag(ea)
\* had for the key (None if it had none), and then tag(ea) has the value for the key
\* and tag(ea, key) returns it.
C6_ReadAfterWrite ==
    [][(last'.op = "set" /\ last'.err = "") =>
          /\ last'.ret = Get(tag(DB, last'.ea), last'.key)
          /\ Get(tag(DB', last'.ea), last'.key) = last'.val
          /\ tag_get(DB', last'.ea, last'.key) = Return(DB', last'.val)]_vars

\* what C6 says holds of every key but __color__, and what it says of tag(ea) and of
\* tag(ea, key) after the call holds of __color__ as well
C6_ExceptColorReturn ==
    [][(last'.op = "set" /\ last'.err = "") =>
          /\ last'.key # "__color__" => last'.ret = Get(tag(DB, last'.ea), last'.key)
          /\ Get(tag(DB', last'.ea), last'.key) = last'.val
          /\ tag_get(DB', last'.ea, last'.key) = Return(DB', last'.val)]_vars

-----------------------------------------------------------------------------
\* C7: a set of a key that tag(ea) does not have, followed by the delete of the key:
\* the delete returns the value that was set, and leaves tag(ea), the tag names recorded
\* for ea and the reference count of the key as they were before the set.
C7_SetDeleteRoundTrip ==
    [][(last'.op = "set" /\ last'.err = "" /\ last'.key \notin DOMAIN tag(DB, last'.ea)) =>
          LET r == tag_del(DB', last'.ea, last'.key)
          IN  /\ r.err = ""
              /\ r.ret = last'.val
              /\ tag(r.db, last'.ea) = tag(DB, last'.ea)
              /\ Recorded(r.db, last'.ea) = Recorded(DB, last'.ea)
              /\ r.db.gidx.tags[last'.key] = DB.gidx.tags[last'.key]
              /\ r.db.cidx = DB.cidx]_vars

\* what C7 says holds of every key but __color__: the delete leaves the database that
\* the set has found
C7_ExceptColor ==
    [][(last'.op = "set" /\ last'.err = "" /\ last'.key # "__color__"
            /\ last'.key \notin DOMAIN tag(DB, last'.ea)) =>
          LET r == tag_del(DB', last'.ea, last'.key)
          IN  r.err = "" /\ r.ret = last'.val /\ State(r.db) = DB]_vars

-----------------------------------------------------------------------------
\* C8: the delete of a non-implicit key that tag(ea) does not have raises MissingTagError,
\* and the delete of a key that was just deleted raises MissingTagError.
C8_DeleteIdempotence ==
    [][(last'.op = "delete" /\ last'.key \in Keys) =>
          /\ last'.key \notin DOMAIN tag(DB, last'.ea) => last'.err = "MissingTagError"
          /\ last'.err = "" =>
                tag_del(DB', last'.ea, last'.key).err = "MissingTagError"]_vars

\* a delete has failed at an address that carries another tag
C8_Witness ==
    /\ last.op = "delete" /\ last.err = "MissingTagError"
    /\ StoredKeys(DB, last.ea) # {}

-----------------------------------------------------------------------------
\* C9: tag(ea, key, None) as a set raises InvalidParameterError for every key, implicit
\* or not, and leaves the comments, the attributes and the reference indices as they were.
C9_NullRejected ==
    [][(last'.op = "set" /\ last'.val = None) =>
          /\ last'.err = "InvalidParameterError"
          /\ DB' = DB]_vars

\* None was refused for an implicit tag that the address has, and for a tag in its comment
C9_Witness ==
    /\ last.op = "set" /\ last.val = None /\ last.err = "InvalidParameterError"
    /\ last.key \in DOMAIN tag(DB, last.ea)
    /\ last.key \in ImplicitKeys
    /\ StoredKeys(DB, last.ea) # {}

-----------------------------------------------------------------------------
\* C10: tag(ea, key) returns tag(ea)[key] when tag(ea) has the key, stored or implicit,
\* and raises MissingTagError when it does not.
C10_GetKey ==
    [][last'.op = "get" =>
          /\ DB' = DB
          /\ IF last'.key \in DOMAIN tag(DB, last'.ea)
             THEN last'.err = "" /\ last'.ret = tag(DB, last'.ea)[last'.key]
             ELSE last'.err = "MissingTagError"]_vars

\* an implicit tag was read at an address that has tags in its comment
C10_Witness ==
    /\ last.op = "get" /\ last.err = ""
    /\ last.key \in ImplicitKeys
    /\ StoredKeys(DB, last.ea) # {}

-----------------------------------------------------------------------------
(* The writes of a call, and the comment slots of an address *)

\* the repeatable flag of the canonical comment slot of ea: non-repeatable inside of a
\* function, repeatable outside
Canonical(db, ea) == ~within(db, ea)

\* a call that has set or deleted a tag that is kept in a comment
Mutated(c) == c.op \in {"set", "delete"} /\ c.err = "" /\ c.key \in Keys

\* the dictionary that the call leaves at its address
Written(db, c) ==
    IF c.op = "set" THEN Assign(Merged(db, c.ea), c.key, c.val) ELSE Pop(Merged(db, c.ea), c.key)

\* the writes of comments, the writes of one comment slot, and the index updates in a log
Writes(log) == SelectSeq(log, LAMBDA e : e.call = "set_cmt")
WritesTo(log, ea, r) ==
    SelectSeq(log, LAMBDA e : e.call = "set_cmt" /\ e.ea = ea /\ e.arg = SlotName(r))
Updates(log) == SelectSeq(log, LAMBDA e : e.call # "set_cmt")

-----------------------------------------------------------------------------
\* C11: a successful set or delete of a non-implicit key leaves the encoded dictionary in
\* the non-repeatable comment of an address inside of a function and in the repeatable
\* comment of an address outside; the other comment is left as it was or left empty.
C11_SlotSelection ==
    [][Mutated(last') =>
          LET ea == last'.ea
              canon == Canonical(DB, ea)
          IN  /\ DB'.cmt[ea][canon] = encode(Written(DB, last'))
              /\ DB'.cmt[ea][~canon] \in {DB.cmt[ea][~canon], <<>>}]_vars

\* a tag was set inside of a function whose repeatable comment holds text that is no tag,
\* and the address has two tags
C11_Witness ==
    /\ Mutated(last) /\ last.op = "set" /\ within(DB, last.ea)
    /\ DB.cmt[last.ea][TRUE] # <<>>
    /\ Len(DB.cmt[last.ea][FALSE]) = 2

-----------------------------------------------------------------------------
\* C12: tag(ea) has the keys of both comments (beside the implicit tags), with the value
\* of the canonical comment for the keys of the canonical comment and the value of the
\* other comment for the rest.
C12_SlotConflict ==
    /\ \A ea \in EA :
          LET dc == decode(DB.cmt[ea][Canonical(DB, ea)])
              dn == decode(DB.cmt[ea][~Canonical(DB, ea)])
              t == tag(DB, ea)
          IN  /\ (DOMAIN t) \ ImplicitKeys = (DOMAIN dc) \cup (DOMAIN dn)
              /\ \A k \in DOMAIN dc : t[k] = dc[k]
              /\ \A k \in (DOMAIN dn) \ (DOMAIN dc) : t[k] = dn[k]
    /\ last.op = "read" => last.map = tag(DB, last.ea)

\* tag(ea) was read while both comments held the same key with different values, and the
\* canonical comment one more key
C12_Witness ==
    /\ last.op = "read"
    /\ LET dc == decode(DB.cmt[last.ea][Canonical(DB, last.ea)])
           dn == decode(DB.cmt[last.ea][~Canonical(DB, last.ea)])
       IN  /\ \E k \in (DOMAIN dc) \cap (DOMAIN dn) : dc[k] # dn[k]
           /\ (DOMAIN dc) \ (DOMAIN dn) # {}

-----------------------------------------------------------------------------
-----------------------------------------------------------------------------
\* C14 as it is written: a successful set or delete of a non-implicit key writes one
\* comment and makes one update of a reference index.
C14_OneWriteOneUpdate ==
    Mutated(last) => Len(Writes(last.log)) = 1 /\ Len(Updates(last.log)) = 1

\* C14, amended: a successful set or delete of a non-implicit key writes the canonical
\* comment of the address once, clears the other comment when it holds tags and does not
\* write it otherwise, and writes no comment of another address; it makes one update of a
\* reference index when it adds or removes the key and none when it overwrites the key.
C14_WritesAndUpdates ==
    [][Mutated(last') =>
          LET ea == last'.ea
              canon == Canonical(DB, ea)
              log == last'.log
          IN  /\ Len(WritesTo(log, ea, canon)) = 1
              /\ Len(WritesTo(log, ea, ~canon)) =
                    (IF decode(DB.cmt[ea][~canon]) # EmptyMap THEN 1 ELSE 0)
              /\ Len(Writes(log)) = Len(WritesTo(log, ea, canon)) + Len(WritesTo(log, ea, ~canon))
              /\ Len(Updates(log)) =
                    (IF last'.op = "set" /\ last'.key \in DOMAIN Merged(DB, ea) THEN 0 ELSE 1)]_vars

\* a set has overwritten a key and cleared the other comment: two writes and no update
C14_Witness ==
    /\ Mutated(last) /\ last.op = "set" /\ last.ret # None
    /\ Len(Writes(last.log)) = 2
    /\ Len(Updates(last.log)) = 0

-----------------------------------------------------------------------------
\* C15: a set or a delete makes at most one update of a reference index: of the Contents
\* index for an address inside of a function, which leaves the Global index as it was, and
\* of the Global index for an address outside, which leaves the Contents index as it was;
\* with an update of the Contents index the comment that the call writes its dictionary
\* to is the non-repeatable one, with an update of the Global index the repeatable one.
C15_IndexRouting ==
    [][last'.op \in {"set", "delete"} =>
          LET ea == last'.ea
              ups == Updates(last'.log)
              wrs == Writes(last'.log)
          IN  /\ Len(ups) <= 1
              /\ \A i \in 1..Len(ups) :
                    /\ ups[i].ea = ea
                    /\ ups[i].call \in (IF within(DB, ea) THEN {"contents.inc", "contents.dec"}
                                        ELSE {"globals.inc", "globals.dec"})
              /\ within(DB, ea) => DB'.gidx = DB.gidx
              /\ ~within(DB, ea) => DB'.cidx = DB.cidx
              /\ ups # <<>> =>
                    wrs # <<>> /\ wrs[Len(wrs)].arg = SlotName(~within(DB, ea))]_vars

\* a delete inside of a function has updated the Contents index while the Global index
\* has records
C15_Witness ==
    /\ Mutated(last) /\ last.op = "delete" /\ within(DB, last.ea)
    /\ Len(Updates(last.log)) = 1
    /\ DB.gidx # EmptyIndex

-----------------------------------------------------------------------------
\* C16: a set of an implicit tag changes the attribute of the address that is behind the
\* tag and nothing else: no comment is written and no reference index is updated.
C16_ImplicitSet ==
    [][(last'.op = "set" /\ last'.err = "" /\ last'.key \in ImplicitKeys) =>
          LET ea == last'.ea
              key == last'.key
          IN  /\ DB'.cmt = DB.cmt /\ DB'.gidx = DB.gidx /\ DB'.cidx = DB.cidx
              /\ last'.log = <<>>
              /\ \A x \in EA \ {ea} : DB'.attr[x] = DB.attr[x]
              /\ key # "__name__" => DB'.attr[ea].name = DB.attr[ea].name
              /\ key # "__color__" => DB'.attr[ea].color = DB.attr[ea].color
              /\ key # "__extra_prefix__" => DB'.attr[ea].prefix = DB.attr[ea].prefix
              /\ key # "__extra_suffix__" => DB'.attr[ea].suffix = DB.attr[ea].suffix
              /\ tag(DB', ea)[key] = last'.val]_vars

\* an implicit tag was set at an address that has a tag in its comment
C16_Witness ==
    /\ last.op = "set" /\ last.err = "" /\ last.key \in ImplicitKeys
    /\ StoredKeys(DB, last.ea) # {}
    /\ Recorded(DB, last.ea) = StoredKeys(DB, last.ea)

-----------------------------------------------------------------------------
\* C17: the delete of an implicit tag that the address has, for each of the four implicit
\* keys, raises nothing, and tag(ea) does not have the key afterwards.
C17_ImplicitDelete ==
    [][(last'.op = "delete" /\ last'.key \in ImplicitKeys
            /\ last'.key \in DOMAIN tag(DB, last'.ea)) =>
          /\ last'.err = ""
          /\ last'.key \notin DOMAIN tag(DB', last'.ea)]_vars

\* what C17 says holds of every implicit key but __color__
C17_ExceptColor ==
    [][(last'.op = "delete" /\ last'.key \in ImplicitKeys \ {"__color__"}
            /\ last'.key \in DOMAIN tag(DB, last'.ea)) =>
          /\ last'.err = ""
          /\ last'.key \notin DOMAIN tag(DB', last'.ea)]_vars

-----------------------------------------------------------------------------
\* C18: erase(ea) raises nothing, whatever the tags of the address, and leaves tag(ea)
\* empty and no key recorded for ea in the reference index of its scope.
C18_EraseCompletes ==
    last.op = "erase" =>
        /\ last.err = ""
        /\ tag(DB, last.ea) = EmptyMap
        /\ Recorded(DB, last.ea) = {}

\* what C18 says holds of erase(ea) at every address that has no color
C18_WithoutColor ==
    [][(last'.op = "erase" /\ "__color__" \notin DOMAIN tag(DB, last'.ea)) =>
          /\ last'.err = ""
          /\ tag(DB', last'.ea) = EmptyMap
          /\ Recorded(DB', last'.ea) = {}]_vars

-----------------------------------------------------------------------------
\* C19: a set whose comment idaapi.set_cmt turns down raises, and leaves both comments of
\* the address and both reference indices as they were before the call.
C19_NoPartialWrite ==
    [][(last'.op = "set" /\ last'.err = "DisassemblerError") => DB' = DB]_vars

\* what holds of C19: a set raises DisassemblerError when idaapi.set_cmt turns the
\* encoded dictionary down, and then the canonical comment is as it was
C19_FailureSurfaces ==
    [][(last'.op = "set" /\ last'.err = "DisassemblerError") =>
          LET canon == Canonical(DB, last'.ea)
          IN  DB'.cmt[last'.ea][canon] = DB.cmt[last'.ea][canon]]_vars

-----------------------------------------------------------------------------
\* what selectcontents yields when it answers from the tags that are in the functions
LiveAnswer(db, q) ==
    LET it == contents_iterate(db)
        queried == [i \in 1..Len(it) |->
                     <<it[i][1], MatchNames(contents_read(db, it[i][1]), q).res>>]
    IN  SelectSeq(queried, LAMBDA y : MatchNames(contents_read(db, y[1]), q).keep /\ y[2] # {})

\* the tag names recorded for a function are not the tag names that are in the function
OutOfSync(db, f) ==
    UNION {db.cidx[f].addr[ea] : ea \in EA} # contents_read(db, f)

\* C20: selectcontents with a query warns when the tag names recorded for a function are
\* not the tag names that are in the function, answers from the tag names that are in the
\* function, and leaves the index as it was.
C20_AnswersFromLive ==
    [][(last'.op = "selectcontents" /\ (last'.q.hasAnd \/ last'.q.hasOr)) =>
          /\ last'.warn = (\E f \in Funcs : DB.cidx[f] # EmptyIndex /\ OutOfSync(DB, f))
          /\ last'.cout = LiveAnswer(DB, last'.q)
          /\ DB'.gidx = DB.gidx /\ DB'.cidx = DB.cidx]_vars

\* what holds of C20: the warning is given and the index is left as it was, and the
\* answer is the one of the recorded tag names
C20_AnswersFromIndex ==
    [][(last'.op = "selectcontents" /\ (last'.q.hasAnd \/ last'.q.hasOr)) =>
          /\ last'.warn = (\E f \in Funcs : DB.cidx[f] # EmptyIndex /\ OutOfSync(DB, f))
          /\ \A i \in 1..Len(last'.cout) :
                last'.cout[i][2] \subseteq contents_name(DB, last'.cout[i][1])
          /\ DB'.gidx = DB.gidx /\ DB'.cidx = DB.cidx]_vars

-----------------------------------------------------------------------------
\* C21 as it is written: with text that is no tag blob in the canonical comment of ea,
\* tag(ea) has no tags but implicit ones.
C21_NoStoredTags ==
    \A ea \in EA :
        ~WellFormed(DB.cmt[ea][Canonical(DB, ea)]) => StoredKeys(DB, ea) = {}

\* C21, amended: with text that is no tag blob in the canonical comment of ea, tag(ea)
\* raises nothing and has, beside the implicit tags, the tags of the other comment and no
\* more (none when the other comment has no tags); select raises nothing and yields an
\* address with the tags that tag(ea) has for it, and no address for which it has none.
C21_CorruptRead ==
    /\ \A ea \in EA :
          ~WellFormed(DB.cmt[ea][Canonical(DB, ea)]) =>
              LET dn == decode(DB.cmt[ea][~Canonical(DB, ea)])
              IN  /\ tag(DB, ea) = Implicit(DB, ea, dn)
                  /\ (last.op = "read" /\ last.ea = ea) => last.map = Implicit(DB, ea, dn)
    /\ last.op = "select" =>
          \A i \in 1..Len(last.out) :
              /\ last.out[i][2] # EmptyMap
              /\ last.out[i][2] =
                    (IF last.q = NoQuery THEN tag(DB, last.out[i][1])
                     ELSE Restrict(tag(DB, last.out[i][1]), last.q.And \cup last.q.Or))

\* select was called while the Global index had a record for an address whose canonical
\* comment is no tag blob
C21_Witness ==
    /\ last.op = "select"
    /\ \E ea \in EA :
          /\ DB.gidx.addr[ea] # {}
          /\ ~WellFormed(DB.cmt[ea][Canonical(DB, ea)])
          /\ ea \notin Yielded(last.out)

-----------------------------------------------------------------------------
\* C22: tag(ea) has each of the four implicit keys exactly when the address has the
\* attribute, and the value of the key is the value of the attribute.
C22_ImplicitOnRead ==
    \A ea \in EA :
        LET t == tag(DB, ea)
        IN  /\ "__name__" \in DOMAIN t <=> name(DB, ea) # None
            /\ "__name__" \in DOMAIN t => t["__name__"] = name(DB, ea)
            /\ "__color__" \in DOMAIN t <=> color(DB, ea) # None
            /\ "__color__" \in DOMAIN t => t["__color__"] = color(DB, ea)
            /\ "__extra_prefix__" \in DOMAIN t <=> get_prefix(DB, ea) # None
            /\ "__extra_prefix__" \in DOMAIN t => t["__extra_prefix__"] = get_prefix(DB, ea)
            /\ "__extra_suffix__" \in DOMAIN t <=> get_suffix(DB, ea) # None
            /\ "__extra_suffix__" \in DOMAIN t => t["__extra_suffix__"] = get_suffix(DB, ea)

\* what C22 says holds of every address whose comments have no tag with the name of an
\* implicit tag
C22_WithoutShadow ==
    \A ea \in EA :
        (DOMAIN Merged(DB, ea)) \cap ImplicitKeys = {} =>
            LET t == tag(DB, ea)
            IN  /\ "__name__" \in DOMAIN t <=> name(DB, ea) # None
                /\ "__name__" \in DOMAIN t => t["__name__"] = name(DB, ea)
                /\ "__color__" \in DOMAIN t <=> color(DB, ea) # None
                /\ "__color__" \in DOMAIN t => t["__color__"] = color(DB, ea)
                /\ "__extra_prefix__" \in DOMAIN t <=> get_prefix(DB, ea) # None
                /\ "__extra_prefix__" \in DOMAIN t => t["__extra_prefix__"] = get_prefix(DB, ea)
                /\ "__extra_suffix__" \in DOMAIN t <=> get_suffix(DB, ea) # None
                /\ "__extra_suffix__" \in DOMAIN t => t["__extra_suffix__"] = get_suffix(DB, ea)

-----------------------------------------------------------------------------
\* two spellings differ in nothing but letter case, separator and modifier order
Denoted ==
    [s \in Spellings |-> LET x == CHOOSE x \in Spelled : x.text = s IN <<x.mods, x.letter>>]

SameHotkey(s, t) == Denoted[s] = Denoted[t]

\* the hotkey that keyboard makes of each spelling
Normalized == [key \in Spellings |-> normalize_key(key)]

\* the callable that a key combination is mapped to: the one that unmap(key) returns
Mapped(kb, key) ==
    IF Normalized[key].err # "" THEN None
    ELSE unmap_hotkey(kb, Normalized[key].hotkey, TRUE).ret

\* a successful map(key, g) returns what the hotkey of key was mapped to and maps every
\* spelling of it to g; a successful unmap(key) returns what it was mapped to and leaves
\* every spelling of it unmapped, and changes nothing when it was not mapped; the
\* spellings of every other hotkey stay mapped to what they were
C23_Step ==
    LET c == last'
    IN  /\ (c.op = "map" /\ c.err = "") =>
            /\ c.ret = Mapped(KB, c.spelling)
            /\ \A t \in Spellings :
                Mapped(KB', t) = IF SameHotkey(c.spelling, t) THEN c.callable
                                 ELSE Mapped(KB, t)
        /\ (c.op = "unmap" /\ c.err = "") =>
            /\ c.ret = Mapped(KB, c.spelling)
            /\ \A t \in Spellings :
                Mapped(KB', t) = IF SameHotkey(c.spelling, t) THEN None
                                 ELSE Mapped(KB, t)
            /\ c.ret = None => UNCHANGED <<cache, hotkeys>>

\* C23: while every call succeeds, map(key, g) returns the callable that was mapped
\* last to the hotkey of key and not unmapped since (None when there is none), unmap(key)
\* returns that callable and removes the mapping, unmap of a hotkey that is not mapped
\* returns None and changes nothing, and spellings that differ only in letter case,
\* separator or modifier order are the same hotkey. Stated by induction over the calls:
\* nothing is mapped at first, and every call does to the mappings what C23_Step says.
C23_Lifecycle ==
    /\ InputSpellings \subseteq Spellings
    /\ \A t \in Spellings : Normalized[t].err = "" /\ Mapped(KB, t) = None
    /\ [][C23_Step]_vars

\* a hotkey was mapped again under the spelling "SHIFT+CTRL+A", the callable of the
\* former mapping was returned, and another hotkey is mapped as well
C23_Witness ==
    /\ last.op = "map" /\ last.err = ""
    /\ last.spelling = join("+", <<upper(shift), upper(ctrl), <<"A">> >>)
    /\ last.ret \in Callables /\ last.ret # last.callable
    /\ Cardinality(DOMAIN cache) = MaxHotkeys

-----------------------------------------------------------------------------
\* C24: with names in And, select yields the recorded addresses whose tags include And,
\* each with its tags of the names of And and Or, and selectcontents yields the recorded
\* functions whose tag names include And, each with And and its tag names of Or; what is
\* yielded is never empty.
C24_CombinedQuery ==
    /\ (last.op = "select" /\ last.q.And # {}) =>
          /\ Yielded(last.out) =
                {ea \in EA : DB.gidx.addr[ea] # {} /\ last.q.And \subseteq DOMAIN tag(DB, ea)}
          /\ \A i \in 1..Len(last.out) :
                /\ last.out[i][2] # EmptyMap
                /\ last.out[i][2] =
                      Restrict(tag(DB, last.out[i][1]), last.q.And \cup last.q.Or)
    /\ (last.op = "selectcontents" /\ last.q.And # {}) =>
          /\ Yielded(last.cout) =
                {f \in Funcs : DB.cidx[f] # EmptyIndex
                                 /\ last.q.And \subseteq contents_name(DB, f)}
          /\ \A i \in 1..Len(last.cout) :
                /\ last.cout[i][2] # {}
                /\ last.cout[i][2] =
                      last.q.And \cup (last.q.Or \cap contents_name(DB, last.cout[i][1]))

\* select(And=a, Or=b) has yielded an address with both tags and has passed over an
\* address that has the tag b alone
C24_Witness ==
    /\ last.op = "select" /\ last.q.And = {"a"} /\ last.q.Or = {"b"}
    /\ \E i \in 1..Len(last.out) : DOMAIN last.out[i][2] = {"a", "b"}
    /\ \E ea \in EA : StoredKeys(DB, ea) = {"b"} /\ ea \notin Yielded(last.out)

-----------------------------------------------------------------------------
\* C25: select and selectcontents without names, be it without arguments or with And and
\* Or given as empty collections, yield every recorded address with its tags, and every
\* recorded function with its tag names.
C25_NoNames ==
    (last.q.And = {} /\ last.q.Or = {}) =>
        /\ last.op = "select" =>
              /\ Yielded(last.out) =
                    {ea \in EA : DB.gidx.addr[ea] # {} /\ tag(DB, ea) # EmptyMap}
              /\ \A i \in 1..Len(last.out) : last.out[i][2] = tag(DB, last.out[i][1])
        /\ last.op = "selectcontents" =>
              /\ Yielded(last.cout) =
                    {f \in Funcs : DB.cidx[f] # EmptyIndex /\ contents_name(DB, f) # {}}
              /\ \A i \in 1..Len(last.cout) :
                    last.cout[i][2] = contents_name(DB, last.cout[i][1])

\* what C25 says holds of the queries without arguments
C25_NoArguments ==
    last.q = NoQuery =>
        /\ last.op = "select" =>
              /\ Yielded(last.out) =
                    {ea \in EA : DB.gidx.addr[ea] # {} /\ tag(DB, ea) # EmptyMap}
              /\ \A i \in 1..Len(last.out) : last.out[i][2] = tag(DB, last.out[i][1])
        /\ last.op = "selectcontents" =>
              /\ Yielded(last.cout) =
                    {f \in Funcs : DB.cidx[f] # EmptyIndex /\ contents_name(DB, f) # {}}
              /\ \A i \in 1..Len(last.cout) :
                    last.cout[i][2] = contents_name(DB, last.cout[i][1])

-----------------------------------------------------------------------------
\* C26: a delete that raises MissingTagError leaves both comments of the address, tag(ea)
\* and the reference indices as they were.
C26_FailedDelete ==
    [][(last'.op = "delete" /\ last'.key \in Keys /\ last'.err = "MissingTagError") =>
          DB' = DB]_vars

\* what C26 says holds when the other comment has no tags
C26_WithoutOtherSlot ==
    [][(last'.op = "delete" /\ last'.key \in Keys /\ last'.err = "MissingTagError"
            /\ decode(DB.cmt[last'.ea][~Canonical(DB, last'.ea)]) = EmptyMap) =>
          DB' = DB]_vars

-----------------------------------------------------------------------------
\* C27: a successful set or delete of the key k at ea leaves every other key of tag(ea)
\* with its value, the tags of the other comment among them, and leaves the comments, the
\* tags and the recorded tag names of every other address, and every attribute, as they
\* were.
C27_Frame ==
    [][Mutated(last') =>
          LET ea == last'.ea
          IN  /\ \A k \in AllKeys \ {last'.key} :
                    Get(tag(DB', ea), k) = Get(tag(DB, ea), k)
              /\ Get(tag(DB', ea), last'.key) = Get(Written(DB, last'), last'.key)
              /\ \A x \in EA \ {ea} :
                    /\ DB'.cmt[x] = DB.cmt[x]
                    /\ tag(DB', x) = tag(DB, x)
                    /\ DB'.gidx.addr[x] = DB.gidx.addr[x]
                    /\ \A f \in Funcs : DB'.cidx[f].addr[x] = DB.cidx[f].addr[x]
              /\ DB'.attr = DB.attr /\ DB'.fn = DB.fn]_vars

\* a key was deleted at an address that keeps a tag that was in its other comment, while
\* another address has tags
C27_Witness ==
    /\ Mutated(last) /\ last.op = "delete"
    /\ \E k \in Keys : Get(tag(DB, last.ea), k) = 2
    /\ \E x \in EA \ {last.ea} : StoredKeys(DB, x) # {}

-----------------------------------------------------------------------------
\* C28: after a successful set or delete of a non-implicit key at ea the other comment of
\* ea has no tags; the tags it had are in the canonical comment, but for the key that was
\* deleted, with the value of the canonical comment where both had the key; another
\* comment without tags is left as it was.
C28_SlotMigration ==
    [][Mutated(last') =>
          LET ea == last'.ea
              canon == Canonical(DB, ea)
              dc == decode(DB.cmt[ea][canon])
              dn == decode(DB.cmt[ea][~canon])
              new == decode(DB'.cmt[ea][canon])
          IN  /\ decode(DB'.cmt[ea][~canon]) = EmptyMap
              /\ dn = EmptyMap => DB'.cmt[ea][~canon] = DB.cmt[ea][~canon]
              /\ dn # EmptyMap => DB'.cmt[ea][~canon] = <<>>
              /\ \A k \in (DOMAIN dn) \ {last'.key} :
                    /\ k \in DOMAIN new
                    /\ new[k] = (IF k \in DOMAIN dc THEN dc[k] ELSE dn[k])]_vars

\* a set of one key has moved another key from the other comment to the canonical one
C28_Witness ==
    /\ Mutated(last) /\ last.op = "set" /\ last.key = "b"
    /\ within(DB, last.ea)
    /\ decode(DB.cmt[last.ea][FALSE]) = [k \in {"a", "b"} |-> IF k = "a" THEN 2 ELSE 1]
    /\ DB.cmt[last.ea][TRUE] = <<>>
    /\ Len(Writes(last.log)) = 2

-----------------------------------------------------------------------------
\* C29: after a successful set or delete at an address, whatever functions were created
\* or removed since the address got its tags, the reference index of its scope records
\* the tags of the address, and the index of the other scope records nothing for it.
C29_ScopeChange ==
    (last.op \in {"set", "delete"} /\ last.err = "") =>
        LET ea == last.ea
        IN  /\ Recorded(DB, ea) = StoredKeys(DB, ea)
            /\ within(DB, ea) => DB.gidx.addr[ea] = {}
            /\ ~within(DB, ea) => \A f \in Funcs : DB.cidx[f].addr[ea] = {}

-----------------------------------------------------------------------------
\* C30: whatever calls to map and unmap were made, and whichever of them raised
\* because the host failed to add or to remove a hotkey, the hotkeys of the cache are the
\* hotkeys that are registered with the host: the contexts of the cache are the ones the
\* host holds, each for one hotkey, registered under a key string of that hotkey.
C30_CacheConsistent ==
    /\ {cache[hotkey][1] : hotkey \in DOMAIN cache} = DOMAIN hotkeys
    /\ \A h1 \in DOMAIN cache, h2 \in DOMAIN cache :
        cache[h1][1] = cache[h2][1] => h1 = h2
    /\ \A hotkey \in DOMAIN cache :
        \E separator \in Separators : hotkeys[cache[hotkey][1]] = of_key(hotkey, separator)

\* a map of a hotkey that was mapped has removed it from the host, has failed to add
\* it again and has raised, while another hotkey is mapped
C30_Witness ==
    /\ last.op = "map" /\ last.err = "DisassemblerError"
    /\ last.log = << <<"del_hotkey", TRUE>>, <<"add_hotkey", FALSE>> >>
    /\ DOMAIN cache # {}

\* an unmap has raised because the host failed to remove the hotkey
C30_FailedUnmap ==
    /\ last.op = "unmap" /\ last.err = "DisassemblerError"
    /\ last.log = << <<"del_hotkey", FALSE>> >>

====
